---- MODULE Spec2Model ----
(***************************************************************************)
(* Model of the LangGraph human-in-the-loop hotel booking workflow         *)
(* (langgraph_gemini_hil.py, driven by hotel_booking_cli.py).              *)
(*                                                                         *)
(* The graph built by create_langgraph_hil has three nodes,                *)
(* extract_data -> human_review -> {extract_data | finalize} -> END, and is *)
(* compiled with a MemorySaver checkpointer keyed by thread_id.  A caller   *)
(* drives it with graph.invoke(initial_state, config) and then              *)
(* graph.invoke(Command(resume=text), config) until no interrupt is left.   *)
(*                                                                         *)
(* Optional JSON values are sequences of length at most one: <<>> is        *)
(* null/absent and <<v>> is the value v.  A date literal "YYYY-MM-DD" is    *)
(* the triple <<y, m, d>>, which strptime accepts only if it names a        *)
(* calendar day.                                                            *)
(***************************************************************************)
EXTENDS Integers, Sequences, FiniteSets, TLC

None == <<>>
Some(v) == <<v>>

(***************************************************************************)
(* Python truthiness of an optional value, as tested by `d.get(k)` in       *)
(* `if d.get(k)` and `d.get(k) or default`: None, 0, "" and [] are falsy.   *)
(***************************************************************************)
TruthyInt(x) == x # None /\ x[1] # 0
TruthyStr(x) == x # None /\ x[1] # ""
TruthyDate(x) == x # None
TruthyList(x) == x # None /\ x[1] # <<>>

(***************************************************************************)
(* datetime.strptime(s, "%Y-%m-%d"), (a - b).days, a + timedelta(days=n)    *)
(* and strftime("%Y-%m-%d").  Days are counted from 1 January of BaseYear   *)
(* (the prompt fixes the current year); the literals of the model are of    *)
(* that year or later.                                                      *)
(***************************************************************************)
BaseYear == 2025

IsLeap(y) == (y % 4 = 0 /\ y % 100 # 0) \/ y % 400 = 0

DaysInMonth(y, m) ==
    IF m = 2 THEN (IF IsLeap(y) THEN 29 ELSE 28)
    ELSE IF m \in {4, 6, 9, 11} THEN 30 ELSE 31

DaysInYear(y) == IF IsLeap(y) THEN 366 ELSE 365

\* strptime raises ValueError unless the literal names a calendar day
ValidDate(s) ==
    /\ s[1] >= 1 /\ s[1] <= 9999
    /\ s[2] \in 1..12
    /\ s[3] >= 1 /\ s[3] <= DaysInMonth(s[1], s[2])

RECURSIVE DaysBeforeYear(_)
DaysBeforeYear(y) == IF y <= BaseYear THEN 0 ELSE DaysBeforeYear(y - 1) + DaysInYear(y - 1)

RECURSIVE DaysBeforeMonth(_, _)
DaysBeforeMonth(y, m) == IF m <= 1 THEN 0 ELSE DaysBeforeMonth(y, m - 1) + DaysInMonth(y, m - 1)

\* the parsed datetime, as a day number
strptime(s) == DaysBeforeYear(s[1]) + DaysBeforeMonth(s[1], s[2]) + (s[3] - 1)

RECURSIVE YearOf(_, _)
YearOf(n, y) == IF n < DaysInYear(y) THEN <<y, n>> ELSE YearOf(n - DaysInYear(y), y + 1)

RECURSIVE MonthOf(_, _, _)
MonthOf(n, y, m) == IF n < DaysInMonth(y, m) THEN <<m, n>> ELSE MonthOf(n - DaysInMonth(y, m), y, m + 1)

\* the literal of a day number
strftime(n) ==
    LET yn == YearOf(n, BaseYear)
        mn == MonthOf(yn[2], yn[1], 1)
    IN  <<yn[1], mn[1], mn[2] + 1>>

(***************************************************************************)
(* extracted_data: the JSON object of the seven prompt keys plus the        *)
(* "error" key of the failure branches.  A key that is absent and a key     *)
(* that is null read the same through dict.get.                             *)
(***************************************************************************)
EmptyData ==
    [lokasi |-> None, tanggal_checkin |-> None, tanggal_checkout |-> None,
     jumlah_malam |-> None, jumlah_tamu |-> None, budget |-> None,
     preferensi |-> None, error |-> None]

ErrorData(msg) == [EmptyData EXCEPT !.error = Some(msg)]

DataFields == {"lokasi", "tanggal_checkin", "tanggal_checkout", "jumlah_malam",
               "jumlah_tamu", "budget", "preferensi"}

\* the state every caller starts a session with
initial_state(user_input) ==
    [user_input |-> <<"text", user_input>>,
     extracted_data |-> EmptyData,
     iteration_count |-> 0,
     status |-> "start",
     messages |-> <<>>]

\* a node's returned mapping overwrites the keys it names and keeps the others
ApplyUpdate(state, update) ==
    [k \in DOMAIN state |-> IF k \in DOMAIN update THEN update[k] ELSE state[k]]

(***************************************************************************)
(* The collaborator (Gemini) and the human are the environment.  A reply    *)
(* is what one extraction attempt meets:                                    *)
(*   unavailable   setup_gemini() returned None                             *)
(*   invoke_error  model.invoke raised                                      *)
(*   not_json      json.loads raised on the cleaned text (a JSON value that  *)
(*                 is no object raises in .get and takes the same handler)   *)
(*   ok            the JSON object `data`                                   *)
(***************************************************************************)
FailureKinds == {"unavailable", "invoke_error", "not_json"}

Reply(kind, data) == [kind |-> kind, data |-> data]

\* no reconciliation: the parsed object as it came
ReconcileDatesKeep(d) == d

\* lines 120-144: date validation and derivation on the parsed object
ReconcileDates(d) ==
    IF TruthyDate(d.tanggal_checkin) /\ TruthyDate(d.tanggal_checkout)
    THEN IF ValidDate(d.tanggal_checkin[1]) /\ ValidDate(d.tanggal_checkout[1])
         THEN LET checkin_date == strptime(d.tanggal_checkin[1])
                  checkout_date == strptime(d.tanggal_checkout[1])
              IN  IF checkout_date <= checkin_date
                  THEN d
                  ELSE [d EXCEPT !.jumlah_malam = Some(checkout_date - checkin_date)]
         ELSE d
    ELSE IF TruthyDate(d.tanggal_checkin) /\ TruthyInt(d.jumlah_malam)
    THEN IF ValidDate(d.tanggal_checkin[1])
         THEN [d EXCEPT !.tanggal_checkout =
                   Some(strftime(strptime(d.tanggal_checkin[1]) + d.jumlah_malam[1]))]
         ELSE d
    ELSE d

\* a node's outcome: the mapping it returns, or the exception that leaves it
Returned(update) == [raised |-> FALSE, exc |-> "", update |-> update]
Raised(exc) == [raised |-> TRUE, exc |-> exc, update |-> <<>>]

\* lines 108-154: the try block
TryExtract(state, reply) ==
    IF reply.kind # "ok"
    THEN Raised(reply.kind)
    ELSE Returned(
           [extracted_data |-> ReconcileDates(reply.data),
            iteration_count |-> state.iteration_count + 1,
            status |-> "extracted",
            messages |-> Append(state.messages, <<"extracted", state.iteration_count + 1>>)])

\* a handler that lets the exception through
ExceptReraise(state, exc) == Raised(exc)

\* lines 156-162: except Exception as e
ExceptHandler(state, exc) ==
    Returned(
      [extracted_data |-> ErrorData(exc),
       status |-> "error",
       messages |-> Append(state.messages, <<"error", exc>>)])

\* an extraction that gives up for good once an attempt has failed
extract_data_sticky(state, reply) ==
    IF reply.kind = "unavailable" \/ state.extracted_data.error # None
    THEN Returned(
           [extracted_data |-> ErrorData("Gemini not available"),
            status |-> "error",
            messages |-> Append(state.messages, <<"unavailable", "">>)])
    ELSE LET r == TryExtract(state, reply)
         IN  IF r.raised THEN ExceptHandler(state, r.exc) ELSE r

extract_data_node(state, reply) ==
    IF reply.kind = "unavailable"
    THEN Returned(
           [extracted_data |-> ErrorData("Gemini not available"),
            status |-> "error",
            messages |-> Append(state.messages, <<"unavailable", "">>)])
    ELSE LET r == TryExtract(state, reply)
         IN  IF r.raised THEN ExceptHandler(state, r.exc) ELSE r

(***************************************************************************)
(* human_review_node after interrupt() has returned the human's text.       *)
(***************************************************************************)
\* a lower() that leaves the text as typed
LowerKeep(s) == s

\* str.lower() on the texts the model's human types
Lower(s) ==
    CASE s = "OK" -> "ok"
      [] s = "Ok" -> "ok"
      [] s = "Setuju" -> "setuju"
      [] s = "SETUJU" -> "setuju"
      [] s = "Benar" -> "benar"
      [] s = "SELESAI" -> "selesai"
      [] s = "Lanjut" -> "lanjut"
      [] s = "2 Orang" -> "2 orang"
      [] s = "OKE" -> "oke"
      [] OTHER -> s

AffirmWords == {"setuju", "ok", "benar"}
FinishWords == {"selesai", "lanjut"}

\* required_fields without the guest count
required_fields_short ==
    << <<"lokasi", "lokasi tujuan">>,
       <<"tanggal_checkin", "tanggal check-in">>,
       <<"jumlah_malam", "jumlah malam">> >>

\* lines 197-202, in the dict's order
required_fields ==
    << <<"lokasi", "lokasi tujuan">>,
       <<"tanggal_checkin", "tanggal check-in">>,
       <<"jumlah_malam", "jumlah malam">>,
       <<"jumlah_tamu", "jumlah tamu">> >>

\* `extracted_data.get(field)` read as a condition
FieldTruthy(data, field) ==
    CASE field = "lokasi" -> TruthyStr(data.lokasi)
      [] field = "tanggal_checkin" -> TruthyDate(data.tanggal_checkin)
      [] field = "tanggal_checkout" -> TruthyDate(data.tanggal_checkout)
      [] field = "jumlah_malam" -> TruthyInt(data.jumlah_malam)
      [] field = "jumlah_tamu" -> TruthyInt(data.jumlah_tamu)
      [] field = "budget" -> TruthyInt(data.budget)
      [] field = "preferensi" -> TruthyList(data.preferensi)

RECURSIVE Labels(_)
Labels(pairs) == IF pairs = <<>> THEN <<>> ELSE <<Head(pairs)[2]>> \o Labels(Tail(pairs))

\* lines 204-207: the labels of the required fields whose value is falsy
MissingLabels(data) ==
    Labels(SelectSeq(required_fields, LAMBDA p : ~FieldTruthy(data, p[1])))

Command(goto, update) == [goto |-> goto, update |-> update]

\* lines 195, 222 and 225: the branch of the if / elif / else a text takes
Decision(human_decision) ==
    IF Lower(human_decision) \in AffirmWords THEN "AFFIRM"
    ELSE IF Lower(human_decision) \in FinishWords THEN "FINISH"
    ELSE "OTHERWISE"

\* a review that takes every AFFIRM to finalize, complete or not
human_review_lenient(state, human_decision) ==
    IF Lower(human_decision) \in AffirmWords \cup FinishWords
    THEN Command("finalize", <<>>)
    ELSE Command("extract_data",
                 [user_input |-> <<"text", human_decision>>,
                  messages |-> Append(state.messages, <<"additional", human_decision>>)])

\* a review that fills in one guest and marks the state when it sends the
\* session back for more data
human_review_filling(state, human_decision) ==
    IF Lower(human_decision) \in AffirmWords
    THEN LET missing == MissingLabels(state.extracted_data)
         IN  IF missing # <<>>
             THEN Command("extract_data",
                          [user_input |-> <<"kurang", missing>>,
                           extracted_data |-> [state.extracted_data EXCEPT !.jumlah_tamu = Some(1)],
                           status |-> "incomplete",
                           messages |-> Append(state.messages, <<"incomplete", missing>>)])
             ELSE Command("finalize", <<>>)
    ELSE IF Lower(human_decision) \in FinishWords
    THEN Command("finalize", <<>>)
    ELSE Command("extract_data",
                 [user_input |-> <<"text", human_decision>>,
                  messages |-> Append(state.messages, <<"additional", human_decision>>)])

\* a review that does not know the FINISH words
human_review_deaf(state, human_decision) ==
    IF Lower(human_decision) \in AffirmWords
    THEN LET missing == MissingLabels(state.extracted_data)
         IN  IF missing # <<>>
             THEN Command("extract_data",
                          [user_input |-> <<"kurang", missing>>,
                           messages |-> Append(state.messages, <<"incomplete", missing>>)])
             ELSE Command("finalize", <<>>)
    ELSE Command("extract_data",
                 [user_input |-> <<"text", human_decision>>,
                  messages |-> Append(state.messages, <<"additional", human_decision>>)])

\* a review that hands on the lowered text instead of the text as typed
human_review_lowered(state, human_decision) ==
    IF Lower(human_decision) \in AffirmWords
    THEN LET missing == MissingLabels(state.extracted_data)
         IN  IF missing # <<>>
             THEN Command("extract_data",
                          [user_input |-> <<"kurang", missing>>,
                           messages |-> Append(state.messages, <<"incomplete", missing>>)])
             ELSE Command("finalize", <<>>)
    ELSE IF Lower(human_decision) \in FinishWords
    THEN Command("finalize", <<>>)
    ELSE Command("extract_data",
                 [user_input |-> <<"text", Lower(human_decision)>>,
                  messages |-> Append(state.messages, <<"additional", human_decision>>)])

\* a review that puts FINISH through the completeness check as well
human_review_gated(state, human_decision) ==
    IF Lower(human_decision) \in AffirmWords \cup FinishWords
    THEN LET missing == MissingLabels(state.extracted_data)
         IN  IF missing # <<>>
             THEN Command("extract_data",
                          [user_input |-> <<"kurang", missing>>,
                           messages |-> Append(state.messages, <<"incomplete", missing>>)])
             ELSE Command("finalize", <<>>)
    ELSE Command("extract_data",
                 [user_input |-> <<"text", human_decision>>,
                  messages |-> Append(state.messages, <<"additional", human_decision>>)])

\* lines 194-233; ", ".join(missing) is kept as the sequence of labels
human_review_node(state, human_decision) ==
    IF Lower(human_decision) \in AffirmWords
    THEN LET missing == MissingLabels(state.extracted_data)
         IN  IF missing # <<>>
             THEN Command("extract_data",
                          [user_input |-> <<"kurang", missing>>,
                           messages |-> Append(state.messages, <<"incomplete", missing>>)])
             ELSE Command("finalize", <<>>)
    ELSE IF Lower(human_decision) \in FinishWords
    THEN Command("finalize", <<>>)
    ELSE Command("extract_data",
                 [user_input |-> <<"text", human_decision>>,
                  messages |-> Append(state.messages, <<"additional", human_decision>>)])

(***************************************************************************)
(* finalize_node.  A displayed value `v or 'Tidak disebutkan'` is v when v  *)
(* is truthy and None otherwise; the budget is printed in groups of three   *)
(* digits.                                                                  *)
(***************************************************************************)
RECURSIVE Thousands(_)
Thousands(n) == IF n < 1000 THEN <<n>> ELSE Append(Thousands(n \div 1000), n % 1000)

\* lines 311-317
format_budget(budget) == IF TruthyInt(budget) THEN Some(Thousands(budget[1])) ELSE None

OrDefault(data, field) == IF FieldTruthy(data, field) THEN data[field] ELSE None

\* lines 242-255
summary_message(final_data, iteration_count) ==
    [lokasi |-> OrDefault(final_data, "lokasi"),
     checkin |-> OrDefault(final_data, "tanggal_checkin"),
     checkout |-> OrDefault(final_data, "tanggal_checkout"),
     malam |-> OrDefault(final_data, "jumlah_malam"),
     tamu |-> OrDefault(final_data, "jumlah_tamu"),
     budget |-> format_budget(final_data.budget),
     preferensi |-> OrDefault(final_data, "preferensi"),
     iterasi |-> iteration_count]

\* a finalize that hands on a cleared record and a count set back to 0
finalize_node_clearing(state) ==
    [status |-> "completed",
     extracted_data |-> EmptyData,
     iteration_count |-> 0,
     messages |-> Append(state.messages,
                         <<"final", summary_message(state.extracted_data, state.iteration_count)>>)]

\* a finalize that starts the message trail afresh
finalize_node_fresh(state) ==
    [status |-> "completed",
     messages |-> <<<<"final", summary_message(state.extracted_data, state.iteration_count)>>>>]

\* lines 235-260
finalize_node(state) ==
    [status |-> "completed",
     messages |-> Append(state.messages,
                         <<"final", summary_message(state.extracted_data, state.iteration_count)>>)]

(***************************************************************************)
(* The environment of the model.                                            *)
(***************************************************************************)
\* the most extraction attempts one behaviour makes, over all sessions
MaxExtract == 2

Threads == {"t1", "t2"}
Callers == {"A", "B"}

\* what the first prompt of a session may be (never empty: line 359)
InitialInputs == {"hotel di Ubud", "villa di Kuta"}

\* what the human may type at a review
HumanTexts == {"setuju", "OK", "SELESAI", "2 Orang"}

\* JSON objects the collaborator may answer with
FullData ==
    [EmptyData EXCEPT !.lokasi = Some("Ubud"),
                      !.tanggal_checkin = Some(<<2025, 6, 20>>),
                      !.tanggal_checkout = Some(<<2025, 6, 25>>),
                      !.jumlah_malam = Some(5),
                      !.jumlah_tamu = Some(2)]

Candidates ==
    { FullData,
      [EmptyData EXCEPT !.lokasi = Some("Ubud"), !.budget = Some(2000000)],
      [EmptyData EXCEPT !.jumlah_tamu = Some(2), !.preferensi = Some(<<"spa">>)],
      [EmptyData EXCEPT !.tanggal_checkin = Some(<<2025, 6, 29>>),
                        !.jumlah_malam = Some(3),
                        !.jumlah_tamu = Some(0)] }

(***************************************************************************)
(* The executor.  store is the MemorySaver: per thread_id the latest        *)
(* checkpoint, which holds the state's values and the node to run next.     *)
(* calls is the invoke each caller has in progress: the node it is at, its  *)
(* copy of the state, the resume value not yet consumed by interrupt(),     *)
(* and how its last invoke ended.  tid is the thread_id of each caller's    *)
(* config, oracle the replies the collaborator may give in this run, fuel   *)
(* the extraction attempts the run may still start, runs the number of      *)
(* times extract_data has run per thread, last the latest step.             *)
(***************************************************************************)
VARIABLES store, calls, tid, oracle, fuel, runs, last

vars == <<store, calls, tid, oracle, fuel, runs, last>>

START == "__start__"
END == "__end__"

\* a graph whose finalize node leads back to the review
EdgeBack(node) ==
    CASE node = START -> "extract_data"
      [] node = "extract_data" -> "human_review"
      [] node = "finalize" -> "human_review"

\* lines 329-333: add_edge
Edge(node) ==
    CASE node = START -> "extract_data"
      [] node = "extract_data" -> "human_review"
      [] node = "finalize" -> END

\* a checkpointer that keeps one snapshot for every thread_id
SaveShared(st, t, values, next) ==
    [u \in DOMAIN st |-> Some([values |-> values, next |-> next])]

\* lines 335-337 with the config of line 367: the checkpoint of thread t
Save(st, t, values, next) ==
    [st EXCEPT ![t] = Some([values |-> values, next |-> next])]

Idle(values, result) ==
    [pc |-> "idle", values |-> values, resume |-> None, result |-> result]

\* what the last step was: who made it, which call or node, and what the
\* environment gave it (the collaborator's reply, the human's text)
Event(c, op, kind, text, data) ==
    [caller |-> c, op |-> op, kind |-> kind, text |-> text, data |-> data]

\* a call moves on to node `next`, or returns when that is END
Proceed(c, values, next) ==
    calls' = [calls EXCEPT ![c] =
                IF next = END
                THEN Idle(Some(values), "end")
                ELSE [pc |-> next, values |-> Some(values), resume |-> None,
                      result |-> "running"]]

\* lines 369-382: graph.invoke(initial_state, config) on a fresh thread_id
Start(c, text) ==
    /\ calls[c].pc = "idle"
    /\ store[tid[c]] = None
    /\ fuel > 0
    /\ Proceed(c, initial_state(text), Edge(START))
    /\ store' = Save(store, tid[c], initial_state(text), Edge(START))
    /\ fuel' = fuel - 1
    /\ last' = Event(c, "start", "", text, EmptyData)
    /\ UNCHANGED <<tid, oracle, runs>>

\* the extract_data node and the checkpoint after it
ExtractData(c) ==
    /\ calls[c].pc = "extract_data"
    /\ \E reply \in oracle :
         LET state == calls[c].values[1]
             r == extract_data_node(state, reply)
         IN  /\ IF r.raised
                THEN /\ calls' = [calls EXCEPT ![c] = Idle(calls[c].values, "raised")]
                     /\ UNCHANGED store
                ELSE /\ Proceed(c, ApplyUpdate(state, r.update), Edge("extract_data"))
                     /\ store' = Save(store, tid[c], ApplyUpdate(state, r.update),
                                      Edge("extract_data"))
             /\ last' = Event(c, "extract_data", reply.kind, "", reply.data)
    /\ runs' = [runs EXCEPT ![tid[c]] = @ + 1]
    /\ UNCHANGED <<tid, oracle, fuel>>

\* lines 164-192: human_review reaches interrupt() with no resume value;
\* the invoke returns the interrupt and the thread stays at human_review
HumanReviewInterrupt(c) ==
    /\ calls[c].pc = "human_review"
    /\ calls[c].resume = None
    /\ calls' = [calls EXCEPT ![c] = Idle(calls[c].values, "interrupt")]
    /\ last' = Event(c, "interrupt", "", "", EmptyData)
    /\ UNCHANGED <<store, tid, oracle, fuel, runs>>

\* a resume that runs the thread's last extraction again before the review
ResumeReextract(c, text) ==
    /\ calls[c].pc = "idle"
    /\ store[tid[c]] # None
    /\ store[tid[c]][1].next = "human_review"
    /\ fuel > 0
    /\ fuel' = fuel - 1
    /\ calls' = [calls EXCEPT ![c] =
                   [pc |-> "extract_data", values |-> Some(store[tid[c]][1].values),
                    resume |-> None, result |-> "running"]]
    /\ last' = Event(c, "resume", "", text, EmptyData)
    /\ UNCHANGED <<store, tid, oracle, runs>>

\* lines 383 and 425: graph.invoke(Command(resume=text), config).  The call
\* loads the thread's checkpoint; at END nothing is left to run and the
\* stored values are returned.  (A resume that would start a further
\* extraction needs fuel.)
Resume(c, text) ==
    /\ calls[c].pc = "idle"
    /\ store[tid[c]] # None
    /\ LET snap == store[tid[c]][1]
       IN  /\ snap.next \in {"human_review", END}
           /\ IF snap.next = END
              THEN /\ calls' = [calls EXCEPT ![c] = Idle(Some(snap.values), "end")]
                   /\ UNCHANGED fuel
              ELSE LET goto == human_review_node(snap.values, text).goto
                   IN  /\ goto = "extract_data" => fuel > 0
                       /\ fuel' = IF goto = "extract_data" THEN fuel - 1 ELSE fuel
                       /\ calls' = [calls EXCEPT ![c] =
                                      [pc |-> "human_review", values |-> Some(snap.values),
                                       resume |-> Some(text), result |-> "running"]]
    /\ last' = Event(c, "resume", "", text, EmptyData)
    /\ UNCHANGED <<store, tid, oracle, runs>>

\* lines 194-233: interrupt() returns the resume value and the node routes
HumanReviewResume(c) ==
    /\ calls[c].pc = "human_review"
    /\ calls[c].resume # None
    /\ LET state == calls[c].values[1]
           text == calls[c].resume[1]
           cmd == human_review_node(state, text)
       IN  /\ Proceed(c, ApplyUpdate(state, cmd.update), cmd.goto)
           /\ store' = Save(store, tid[c], ApplyUpdate(state, cmd.update), cmd.goto)
           /\ last' = Event(c, "human_review", cmd.goto, text, EmptyData)
    /\ UNCHANGED <<tid, oracle, fuel, runs>>

\* the finalize node and the checkpoint after it
Finalize(c) ==
    /\ calls[c].pc = "finalize"
    /\ LET state == calls[c].values[1]
       IN  /\ Proceed(c, ApplyUpdate(state, finalize_node(state)), Edge("finalize"))
           /\ store' = Save(store, tid[c], ApplyUpdate(state, finalize_node(state)),
                            Edge("finalize"))
    /\ last' = Event(c, "finalize", "", "", EmptyData)
    /\ UNCHANGED <<tid, oracle, fuel, runs>>

Next ==
    \/ \E c \in DOMAIN tid, text \in InitialInputs : Start(c, text)
    \/ \E c \in DOMAIN tid : ExtractData(c)
    \/ \E c \in DOMAIN tid : HumanReviewInterrupt(c)
    \/ \E c \in DOMAIN tid, text \in HumanTexts : Resume(c, text)
    \/ \E c \in DOMAIN tid : HumanReviewResume(c)
    \/ \E c \in DOMAIN tid : Finalize(c)

InitCommon ==
    /\ store = [t \in Threads |-> None]
    /\ calls = [c \in DOMAIN tid |-> Idle(None, "none")]
    /\ runs = [t \in Threads |-> 0]
    /\ last = Event("", "init", "", "", EmptyData)
    /\ fuel = MaxExtract

\* two runs of the program, each with the thread_id it generated
Init ==
    /\ tid = [c \in Callers |-> IF c = "A" THEN "t1" ELSE "t2"]
    /\ oracle = {Reply(k, EmptyData) : k \in FailureKinds}
                   \cup {Reply("ok", d) : d \in Candidates}
    /\ InitCommon

Spec == Init /\ [][Next]_vars

\* one run of the program against a collaborator that answers with one
\* fixed object, drawn from every combination of the fields' values
WideCandidates ==
    [lokasi : {None, Some("Ubud")},
     tanggal_checkin : {None, Some(<<2025, 6, 20>>), Some(<<2025, 6, 31>>)},
     tanggal_checkout : {None, Some(<<2025, 6, 18>>), Some(<<2025, 6, 25>>)},
     jumlah_malam : {None, Some(0), Some(3)},
     jumlah_tamu : {None, Some(0), Some(2)},
     budget : {None},
     preferensi : {None},
     error : {None}]

InitWide ==
    /\ tid = [c \in {"A"} |-> "t1"]
    /\ oracle \in {{Reply("ok", d)} : d \in WideCandidates}
    /\ InitCommon

SpecWide == InitWide /\ [][Next]_vars

\* one run of the program with a human who types the vocabulary and other
\* texts in several spellings
CaseTexts == {"setuju", "Setuju", "SETUJU", "ok", "OK", "Ok", "benar", "Benar",
              "selesai", "SELESAI", "lanjut", "Lanjut", "oke", "OKE", ""}

NextCase ==
    \/ \E c \in DOMAIN tid, text \in InitialInputs : Start(c, text)
    \/ \E c \in DOMAIN tid : ExtractData(c)
    \/ \E c \in DOMAIN tid : HumanReviewInterrupt(c)
    \/ \E c \in DOMAIN tid, text \in CaseTexts : Resume(c, text)
    \/ \E c \in DOMAIN tid : HumanReviewResume(c)
    \/ \E c \in DOMAIN tid : Finalize(c)

InitCase ==
    /\ tid = [c \in {"A"} |-> "t1"]
    /\ oracle = {Reply("unavailable", EmptyData)}
                   \cup {Reply("ok", d) : d \in Candidates}
    /\ InitCommon

SpecCase == InitCase /\ [][NextCase]_vars

\* one run of the program in which the executor runs every node that is
\* due, every call of the collaborator returns or fails, and the human,
\* asked again and again, at some time answers with a FINISH word
InitLive ==
    /\ tid = [c \in {"A"} |-> "t1"]
    /\ oracle = {Reply(k, EmptyData) : k \in FailureKinds}
                   \cup {Reply("ok", d) : d \in Candidates}
    /\ InitCommon

Fairness ==
    \A c \in {"A"} :
        /\ WF_vars(ExtractData(c))
        /\ WF_vars(HumanReviewInterrupt(c))
        /\ WF_vars(HumanReviewResume(c))
        /\ WF_vars(Finalize(c))
        /\ SF_vars(Resume(c, "SELESAI"))

SpecLive == InitLive /\ [][Next]_vars /\ Fairness

\* two callers that hold the same thread_id: nothing in the graph, its
\* checkpointer or the callers' loops keeps their calls apart
InitShared ==
    /\ tid = [c \in Callers |-> "t1"]
    /\ oracle = {Reply("unavailable", EmptyData)}
                   \cup {Reply("ok", d) : d \in Candidates}
    /\ InitCommon

SpecShared == InitShared /\ [][Next]_vars

(***************************************************************************)
(* Properties.  A step is recognised by the event it leaves in last'; the   *)
(* state a node ran on is the caller's copy before the step, and what the   *)
(* step stored is the thread's checkpoint after it.                         *)
(***************************************************************************)
Held(c) == calls[c].values[1]
Stored(t) == store[t][1].values

ExtractStepOf(c) == last'.op = "extract_data" /\ last'.caller = c
FailedExtractStepOf(c) == ExtractStepOf(c) /\ last'.kind \in FailureKinds

IsPrefix(p, q) == Len(p) <= Len(q) /\ SubSeq(q, 1, Len(p)) = p

\* C1: on a successful extraction, every field that is non-null in the
\* existing extracted_data and null in the collaborator's object keeps its
\* value in the extracted_data the step stores.
C1_MergeKeepsExisting ==
    [][\A c \in DOMAIN tid :
         (ExtractStepOf(c) /\ last'.kind = "ok") =>
            \A f \in DataFields :
               (Held(c).extracted_data[f] # None /\ last'.data[f] = None)
                  => Stored(tid[c])'.extracted_data[f] = Held(c).extracted_data[f]]_vars

\* C2: on a failed extraction, every field of extracted_data that was
\* non-null before the step has the same value after it.
C2_FailureKeepsData ==
    [][\A c \in DOMAIN tid :
         FailedExtractStepOf(c) =>
            /\ calls'[c].values # None
            /\ \A f \in DataFields :
                  Held(c).extracted_data[f] # None
                     => Held(c)'.extracted_data[f] = Held(c).extracted_data[f]]_vars

\* C3: a failed extraction does not raise; it sets the error marker, appends
\* exactly one entry to messages and goes on to human_review, whose
\* interrupt suspends the session as after a success.
C3_FailureReachesReview ==
    [][\A c \in DOMAIN tid :
         /\ FailedExtractStepOf(c) =>
               /\ calls'[c].result # "raised"
               /\ calls'[c].pc = "human_review"
               /\ calls'[c].resume = None
               /\ Held(c)'.status = "error"
               /\ Held(c)'.extracted_data.error # None
               /\ Len(Held(c)'.messages) = Len(Held(c).messages) + 1
               /\ IsPrefix(Held(c).messages, Held(c)'.messages)
               /\ store'[tid[c]] = Some([values |-> Held(c)', next |-> "human_review"])
         /\ (calls[c].pc = "human_review" /\ calls[c].resume = None /\ calls'[c] # calls[c]) =>
               /\ calls'[c].pc = "idle"
               /\ calls'[c].result = "interrupt"
               /\ store' = store]_vars

\* a session is suspended at the review with the error marker of a failed extraction
C3_Witness ==
    \E c \in DOMAIN tid :
        /\ calls[c].result = "interrupt"
        /\ calls[c].pc = "idle"
        /\ Held(c).status = "error"
        /\ store[tid[c]][1].next = "human_review"
        /\ last.op = "interrupt"

\* C4: the stored iteration_count equals the number of times the extraction
\* step has run in the session.
C4_CountsEveryAttempt ==
    \A t \in Threads : store[t] # None => Stored(t).iteration_count = runs[t]

\* C5: iteration_count never decreases, and is strictly greater after each
\* extraction.
C5_CountGrows ==
    [][\A c \in DOMAIN tid :
         (calls[c].values # None /\ calls'[c].values # None) =>
            /\ Held(c)'.iteration_count >= Held(c).iteration_count
            /\ ExtractStepOf(c) => Held(c)'.iteration_count > Held(c).iteration_count]_vars

\* C6: a resume on a session whose status is completed returns the stored
\* state, schedules no node and changes neither the checkpoint nor the
\* number of extraction runs.
C6_ResumeCompletedIsNoop ==
    [][\A c \in DOMAIN tid :
         (/\ last'.op = "resume" /\ last'.caller = c
          /\ store[tid[c]] # None
          /\ Stored(tid[c]).status = "completed") =>
            /\ calls'[c].pc = "idle"
            /\ calls'[c].result = "end"
            /\ calls'[c].values = Some(Stored(tid[c]))
            /\ store' = store
            /\ runs' = runs]_vars

\* a resume has just returned from a completed session
C6_Witness ==
    /\ last.op = "resume"
    /\ calls[last.caller].result = "end"
    /\ calls[last.caller].pc = "idle"
    /\ Stored(tid[last.caller]).status = "completed"

(***************************************************************************)
(* The checkpoint a node leaves, computed from the thread's own checkpoint  *)
(* and the event alone.                                                     *)
(***************************************************************************)
ReplayEvent(snap, ev) ==
    CASE ev.op = "start" ->
           Some([values |-> initial_state(ev.text), next |-> "extract_data"])
      [] ev.op = "extract_data" ->
           LET r == extract_data_node(snap[1].values, Reply(ev.kind, ev.data))
           IN  Some([values |-> ApplyUpdate(snap[1].values, r.update),
                     next |-> "human_review"])
      [] ev.op = "human_review" ->
           LET cmd == human_review_node(snap[1].values, ev.text)
           IN  Some([values |-> ApplyUpdate(snap[1].values, cmd.update),
                     next |-> cmd.goto])
      [] ev.op = "finalize" ->
           Some([values |-> ApplyUpdate(snap[1].values, finalize_node(snap[1].values)),
                 next |-> END])
      [] OTHER -> snap

\* C9: a step of one session leaves every other session's checkpoint as it
\* is, and the checkpoint it writes is the one its own session's checkpoint
\* and input give, whatever the other session holds.
C9_SessionIsolation ==
    [][\A c \in DOMAIN tid :
         last'.caller = c =>
            /\ \A t \in Threads \ {tid[c]} : store'[t] = store[t] /\ runs'[t] = runs[t]
            /\ store'[tid[c]] = ReplayEvent(store[tid[c]], last')]_vars

\* two sessions are under way, each with data of its own
C9_Witness ==
    /\ store["t1"] # None /\ store["t2"] # None
    /\ tid["A"] # tid["B"]
    /\ Stored("t1").iteration_count = 1 /\ Stored("t2").iteration_count = 1
    /\ Stored("t1").extracted_data # Stored("t2").extracted_data
    /\ Stored("t1").user_input # Stored("t2").user_input

(***************************************************************************)
(* The review's completeness check.                                         *)
(***************************************************************************)
RequiredNames == {"lokasi", "tanggal_checkin", "jumlah_malam", "jumlah_tamu"}

LabelOf(f) ==
    CASE f = "lokasi" -> "lokasi tujuan"
      [] f = "tanggal_checkin" -> "tanggal check-in"
      [] f = "jumlah_malam" -> "jumlah malam"
      [] f = "jumlah_tamu" -> "jumlah tamu"

\* the required fields that are null or absent
NullFields(data) == {f \in RequiredNames : data[f] = None}

\* the required fields that are null, absent, 0 or empty
UnfilledFields(data) ==
    {f \in {"lokasi"} : data[f] = None \/ data[f][1] = ""}
    \cup {f \in {"tanggal_checkin"} : data[f] = None}
    \cup {f \in {"jumlah_malam", "jumlah_tamu"} : data[f] = None \/ data[f][1] = 0}

ReviewStepOf(c) == last'.op = "human_review" /\ last'.caller = c

\* an AFFIRM that finds the fields `wanted` missing goes back to extract_data
\* with a prompt that names exactly those fields, and one more message
AsksFor(c, wanted) ==
    /\ calls'[c].pc = "extract_data"
    /\ store'[tid[c]][1].next = "extract_data"
    /\ Held(c)'.user_input[1] = "kurang"
    /\ {Held(c)'.user_input[2][i] : i \in DOMAIN Held(c)'.user_input[2]}
          = {LabelOf(f) : f \in wanted}
    /\ Len(Held(c)'.user_input[2]) = Cardinality(wanted)
    /\ Len(Held(c)'.messages) = Len(Held(c).messages) + 1
    /\ IsPrefix(Held(c).messages, Held(c)'.messages)

\* C10 as stated: an AFFIRM with a required field null goes back to
\* extract_data with a prompt that names exactly the null required fields.
C10_NamesExactlyNullFields ==
    [][\A c \in DOMAIN tid :
         (/\ ReviewStepOf(c)
          /\ Lower(last'.text) \in AffirmWords
          /\ NullFields(Held(c).extracted_data) # {}) =>
            AsksFor(c, NullFields(Held(c).extracted_data))]_vars

\* C10 as amended: an AFFIRM with a required field null, 0 or empty goes
\* back to extract_data with a prompt that names exactly those fields.
C10_NamesExactlyUnfilledFields ==
    [][\A c \in DOMAIN tid :
         (/\ ReviewStepOf(c)
          /\ Lower(last'.text) \in AffirmWords
          /\ UnfilledFields(Held(c).extracted_data) # {}) =>
            AsksFor(c, UnfilledFields(Held(c).extracted_data))]_vars

\* an AFFIRM has been sent back with a prompt that names a field holding 0
\* beside a field that is null
C10_Witness ==
    \E c \in DOMAIN tid :
        /\ last.op = "human_review" /\ last.caller = c
        /\ last.kind = "extract_data"
        /\ Lower(last.text) \in AffirmWords
        /\ Held(c).user_input = <<"kurang", <<"lokasi tujuan", "jumlah tamu">>>>
        /\ Held(c).extracted_data.jumlah_tamu = Some(0)
        /\ Held(c).extracted_data.lokasi = None

(***************************************************************************)
(* Two resume calls on one thread_id.                                       *)
(***************************************************************************)
\* caller d resumed and the human_review node of that call has not run yet
ResumeInFlight(d) == calls[d].pc = "human_review" /\ calls[d].resume # None

\* caller c starts a resume on a thread_id where another resume is in flight
LateResumeOf(c) ==
    /\ last'.op = "resume" /\ last'.caller = c
    /\ \E d \in DOMAIN tid \ {c} : tid[d] = tid[c] /\ ResumeInFlight(d)

\* C8: a resume that starts while an earlier resume on the same thread_id
\* has not returned is rejected: the call returns an error at once, so that
\* its human text never reaches the human_review node or the stored state.
C8_LateResumeRejected ==
    [][\A c \in DOMAIN tid :
         LateResumeOf(c) =>
             /\ calls'[c].pc = "idle"
             /\ calls'[c].resume = None
             /\ calls'[c].result = "rejected"]_vars

(***************************************************************************)
(* The review's routing.                                                    *)
(***************************************************************************)
\* the review step of c hands the state on to finalize as it is
GoesToFinalize(c) ==
    /\ calls'[c].pc = "finalize"
    /\ Held(c)' = Held(c)
    /\ store'[tid[c]] = Some([values |-> Held(c), next |-> "finalize"])
    /\ runs' = runs

\* C11: an AFFIRM on a state whose four required fields are all non-null
\* (a count of 0 included) goes to finalize, with no further extraction.
C11_AffirmCompleteFinalizes ==
    [][\A c \in DOMAIN tid :
         (/\ ReviewStepOf(c)
          /\ Lower(last'.text) \in AffirmWords
          /\ NullFields(Held(c).extracted_data) = {}) =>
            GoesToFinalize(c)]_vars

FinalizeStepOf(c) == last'.op = "finalize" /\ last'.caller = c

\* C12: a FINISH at the review goes to finalize whatever extracted_data
\* holds, with no completeness check and no extraction, and the finalize
\* that follows ends the call with status completed.
C12_FinishAlwaysFinalizes ==
    [][\A c \in DOMAIN tid :
         /\ (ReviewStepOf(c) /\ Lower(last'.text) \in {"selesai", "lanjut"}) =>
               GoesToFinalize(c)
         /\ FinalizeStepOf(c) =>
               /\ calls'[c].pc = "idle" /\ calls'[c].result = "end"
               /\ Held(c)'.status = "completed"
               /\ store'[tid[c]] = Some([values |-> Held(c)', next |-> END])
               /\ runs' = runs]_vars

\* a session has completed although a required field is missing, which only
\* a FINISH allows
C12_Witness ==
    \E c \in DOMAIN tid :
        /\ last.op = "finalize" /\ last.caller = c
        /\ calls[c].result = "end"
        /\ Stored(tid[c]).status = "completed"
        /\ MissingLabels(Stored(tid[c]).extracted_data) # <<>>

\* C13: a text that is neither an AFFIRM nor a FINISH word sends the session
\* back to extract_data with user_input set to that text as typed, and the
\* extraction that follows runs on the state that holds it.
C13_OtherwiseFeedsRawText ==
    [][\A c \in DOMAIN tid :
         /\ (/\ ReviewStepOf(c)
             /\ Lower(last'.text) \notin {"setuju", "ok", "benar", "selesai", "lanjut"}) =>
               /\ calls'[c].pc = "extract_data"
               /\ Held(c)'.user_input = <<"text", last'.text>>
               /\ Held(c)'.extracted_data = Held(c).extracted_data
               /\ Held(c)'.iteration_count = Held(c).iteration_count
               /\ store'[tid[c]] = Some([values |-> Held(c)', next |-> "extract_data"])
         /\ ExtractStepOf(c) =>
               /\ calls'[c].values # None
               /\ Held(c)'.user_input = Held(c).user_input]_vars

\* a second extraction has run on the text the human typed at the review
C13_Witness ==
    \E c \in DOMAIN tid :
        /\ last.op = "extract_data" /\ last.caller = c
        /\ runs[tid[c]] = 2
        /\ Held(c).user_input = <<"text", "2 Orang">>
        /\ store[tid[c]] = Some([values |-> Held(c), next |-> "human_review"])

\* C14: across every step of a session the messages held before are a
\* prefix of the messages held after, in the call's state and in the
\* thread's checkpoint.
C14_MessagesAppendOnly ==
    [][/\ \A c \in DOMAIN tid :
            (calls[c].values # None /\ calls'[c].values # None) =>
               IsPrefix(Held(c).messages, Held(c)'.messages)
       /\ \A t \in Threads :
            store[t] # None =>
               /\ store'[t] # None
               /\ IsPrefix(Stored(t).messages, Stored(t)'.messages)]_vars

\* a session has completed with the entries of two extractions, a review
\* and the summary, in that order
C14_Witness ==
    \E t \in Threads :
        /\ store[t] # None
        /\ Stored(t).status = "completed"
        /\ Len(Stored(t).messages) = 4
        /\ Stored(t).messages[1][1] \in {"extracted", "error", "unavailable"}
        /\ Stored(t).messages[2][1] \in {"additional", "incomplete"}
        /\ Stored(t).messages[4][1] = "final"

(***************************************************************************)
(* Dates in extracted_data.                                                 *)
(***************************************************************************)
\* both dates are held and name calendar days
BothDates(d) ==
    /\ d.tanggal_checkin # None /\ d.tanggal_checkout # None
    /\ ValidDate(d.tanggal_checkin[1]) /\ ValidDate(d.tanggal_checkout[1])

DaysBetween(d) == strptime(d.tanggal_checkout[1]) - strptime(d.tanggal_checkin[1])

\* C15 as stated: whenever a checkpoint's extracted_data has a checkin and a
\* checkout date, checkout is strictly later than checkin and jumlah_malam
\* is the number of days between them.
C15_DatesConsistent ==
    \A t \in Threads :
        (/\ store[t] # None
         /\ Stored(t).extracted_data.tanggal_checkin # None
         /\ Stored(t).extracted_data.tanggal_checkout # None) =>
            /\ BothDates(Stored(t).extracted_data)
            /\ DaysBetween(Stored(t).extracted_data) > 0
            /\ Stored(t).extracted_data.jumlah_malam
                 = Some(DaysBetween(Stored(t).extracted_data))

\* C15 as amended: whenever a checkpoint's extracted_data has a checkin and
\* a checkout date that name calendar days with checkout strictly later than
\* checkin, jumlah_malam is the number of days between them.
C15_OrderedDatesConsistent ==
    \A t \in Threads :
        (/\ store[t] # None
         /\ BothDates(Stored(t).extracted_data)
         /\ DaysBetween(Stored(t).extracted_data) > 0) =>
            Stored(t).extracted_data.jumlah_malam
               = Some(DaysBetween(Stored(t).extracted_data))

\* an extraction has replaced the collaborator's 3 nights by the 5 days
\* between the two dates it gave
C15_Witness ==
    \E c \in DOMAIN tid :
        /\ last.op = "extract_data" /\ last.caller = c /\ last.kind = "ok"
        /\ last.data.tanggal_checkin = Some(<<2025, 6, 20>>)
        /\ last.data.tanggal_checkout = Some(<<2025, 6, 25>>)
        /\ last.data.jumlah_malam = Some(3)
        /\ Stored(tid[c]).extracted_data.jumlah_malam = Some(5)

\* the entries a step of c has added to messages
AddedMessages(c) ==
    SubSeq(Held(c)'.messages, Len(Held(c).messages) + 1, Len(Held(c)'.messages))

\* C16: an extraction whose object has a checkout that is not after its
\* checkin keeps jumlah_malam and both dates as supplied, appends a warning
\* to messages, does not raise and goes on to human_review.
C16_InvalidRangeWarns ==
    [][\A c \in DOMAIN tid :
         (/\ ExtractStepOf(c) /\ last'.kind = "ok"
          /\ BothDates(last'.data)
          /\ DaysBetween(last'.data) <= 0) =>
            /\ calls'[c].result # "raised"
            /\ calls'[c].pc = "human_review"
            /\ Held(c)'.extracted_data.jumlah_malam = last'.data.jumlah_malam
            /\ Held(c)'.extracted_data.tanggal_checkin = last'.data.tanggal_checkin
            /\ Held(c)'.extracted_data.tanggal_checkout = last'.data.tanggal_checkout
            /\ \E i \in DOMAIN AddedMessages(c) : AddedMessages(c)[i][1] = "warning"]_vars

\* C16 without the warning: the same extraction keeps jumlah_malam and both
\* dates as supplied, does not raise, goes on to human_review, and adds the
\* one entry of a successful extraction.
C16_InvalidRangeKept ==
    [][\A c \in DOMAIN tid :
         (/\ ExtractStepOf(c) /\ last'.kind = "ok"
          /\ BothDates(last'.data)
          /\ DaysBetween(last'.data) <= 0) =>
            /\ calls'[c].result # "raised"
            /\ calls'[c].pc = "human_review"
            /\ Held(c)'.extracted_data = last'.data
            /\ AddedMessages(c) = << <<"extracted", Held(c)'.iteration_count>> >>]_vars

\* the extraction of c leaves checkout = checkin + nights in the state and
\* keeps the checkin and the nights of the collaborator's object
DerivesCheckout(c) ==
    /\ calls'[c].values # None
    /\ Held(c)'.extracted_data.tanggal_checkout =
          Some(strftime(strptime(last'.data.tanggal_checkin[1]) + last'.data.jumlah_malam[1]))
    /\ Held(c)'.extracted_data.tanggal_checkin = last'.data.tanggal_checkin
    /\ Held(c)'.extracted_data.jumlah_malam = last'.data.jumlah_malam

\* the extraction of c keeps the checkout of the collaborator's object
KeepsCheckout(c) ==
    /\ calls'[c].values # None
    /\ Held(c)'.extracted_data.tanggal_checkout = last'.data.tanggal_checkout

\* C17: an extraction whose object has a checkin (a calendar day) and a
\* number of nights >= 0 but no checkout sets checkout = checkin + nights and
\* keeps checkin and nights; a checkout that is present is never replaced.
C17_DerivesCheckout ==
    [][\A c \in DOMAIN tid :
         (ExtractStepOf(c) /\ last'.kind = "ok") =>
            /\ (/\ last'.data.tanggal_checkin # None
                /\ ValidDate(last'.data.tanggal_checkin[1])
                /\ last'.data.jumlah_malam # None
                /\ last'.data.tanggal_checkout = None) => DerivesCheckout(c)
            /\ last'.data.tanggal_checkout # None => KeepsCheckout(c)]_vars

\* C17 for a number of nights other than 0
C17_DerivesCheckoutNonzero ==
    [][\A c \in DOMAIN tid :
         (ExtractStepOf(c) /\ last'.kind = "ok") =>
            /\ (/\ last'.data.tanggal_checkin # None
                /\ ValidDate(last'.data.tanggal_checkin[1])
                /\ last'.data.jumlah_malam # None
                /\ last'.data.jumlah_malam[1] # 0
                /\ last'.data.tanggal_checkout = None) => DerivesCheckout(c)
            /\ last'.data.tanggal_checkout # None => KeepsCheckout(c)]_vars

(***************************************************************************)
(* Preferences.                                                             *)
(***************************************************************************)
\* a preference list that is null or absent reads as the empty list
ListOf(x) == IF x = None THEN <<>> ELSE x[1]

Range(s) == {s[i] : i \in DOMAIN s}

\* a followed by the entries of b not seen before, in first-seen order
RECURSIVE OrderedUnion(_, _)
OrderedUnion(a, b) ==
    IF b = <<>> THEN a
    ELSE IF Head(b) \in Range(a) THEN OrderedUnion(a, Tail(b))
    ELSE OrderedUnion(Append(a, Head(b)), Tail(b))

\* C18: after a successful extraction the stored preferences are the
\* existing preferences followed by the collaborator's preferences not
\* already among them.
C18_PreferenceUnion ==
    [][\A c \in DOMAIN tid :
         (ExtractStepOf(c) /\ last'.kind = "ok") =>
            /\ calls'[c].values # None
            /\ ListOf(Held(c)'.extracted_data.preferensi)
                 = OrderedUnion(OrderedUnion(<<>>, ListOf(Held(c).extracted_data.preferensi)),
                                ListOf(last'.data.preferensi))]_vars

(***************************************************************************)
(* Where a resume re-enters the graph.                                      *)
(***************************************************************************)
\* the reviews of thread t that were routed to extract_data: each left one
\* entry in messages
RoutedToExtract(t) ==
    Cardinality({i \in DOMAIN Stored(t).messages :
                    Stored(t).messages[i][1] \in {"incomplete", "additional"}})

\* an extraction of thread t is due and has not run yet
PendingExtract(t) == IF store[t][1].next = "extract_data" THEN 1 ELSE 0

\* C19: a resume re-enters at human_review and runs no node itself; after an
\* extraction a call can only suspend at the review; and in every session
\* the extractions run, with the one that is due, are 1 plus the reviews
\* routed to extract_data.
C19_ResumeReentersAtReview ==
    /\ [](\A t \in Threads :
            store[t] # None => runs[t] + PendingExtract(t) = 1 + RoutedToExtract(t))
    /\ [][\A c \in DOMAIN tid :
            /\ (last'.op = "resume" /\ last'.caller = c) =>
                  /\ calls'[c].pc \in {"human_review", "idle"}
                  /\ store' = store /\ runs' = runs
            /\ ExtractStepOf(c) =>
                  /\ store[tid[c]] = Some([values |-> Held(c), next |-> "extract_data"])
                  /\ runs[tid[c]] = RoutedToExtract(tid[c])
                  /\ calls'[c].pc = "human_review" /\ calls'[c].resume = None
                  /\ runs'[tid[c]] = runs[tid[c]] + 1]_vars

\* a session is suspended at the review after its second extraction, which
\* the one resume that was routed to extract_data caused
C19_Witness ==
    \E c \in DOMAIN tid :
        /\ last.op = "interrupt" /\ last.caller = c
        /\ runs[tid[c]] = 2
        /\ RoutedToExtract(tid[c]) = 1
        /\ store[tid[c]][1].next = "human_review"

(***************************************************************************)
(* What finalize leaves.                                                    *)
(***************************************************************************)
\* C20: a review that routes to finalize hands on the state of the
\* suspension as it is, and finalize keeps extracted_data, iteration_count
\* and user_input, sets status to completed and appends one summary entry;
\* that state is the call's result and the thread's last checkpoint.
C20_FinalizeKeepsReviewedData ==
    [][\A c \in DOMAIN tid :
         /\ (ReviewStepOf(c) /\ last'.kind = "finalize") =>
               /\ Held(c) = Stored(tid[c])
               /\ Held(c)' = Held(c)
         /\ FinalizeStepOf(c) =>
               /\ Held(c)'.extracted_data = Held(c).extracted_data
               /\ Held(c)'.iteration_count = Held(c).iteration_count
               /\ Held(c)'.user_input = Held(c).user_input
               /\ Held(c)'.status = "completed"
               /\ Len(AddedMessages(c)) = 1
               /\ AddedMessages(c)[1][1] = "final"
               /\ IsPrefix(Held(c).messages, Held(c)'.messages)
               /\ calls'[c].result = "end"
               /\ Stored(tid[c])' = Held(c)']_vars

\* a session has completed after two extractions and carries the record
\* and the count of its last review
C20_Witness ==
    \E c \in DOMAIN tid :
        /\ last.op = "finalize" /\ last.caller = c
        /\ calls[c].result = "end"
        /\ Held(c).status = "completed"
        /\ Held(c).iteration_count = 2
        /\ Held(c).extracted_data = FullData

(***************************************************************************)
(* A session from its start to its end.                                     *)
(***************************************************************************)
\* caller c holds a session after its first and only extraction, which
\* succeeded, and the one suspension that followed it
AfterFirstExtraction(c) ==
    /\ calls[c].values # None
    /\ runs[tid[c]] = 1
    /\ Held(c).status = "extracted"
    /\ Held(c).iteration_count = 1
    /\ Held(c).messages = << <<"extracted", 1>> >>

\* C21: after a first extraction that succeeded with the four required
\* fields non-null, one AFFIRM goes to finalize, and the finalize that
\* follows ends the call with status completed and iteration_count 1 after
\* that one suspension.
C21_HappyPath ==
    [][\A c \in DOMAIN tid :
         /\ (/\ ReviewStepOf(c)
             /\ Lower(last'.text) \in AffirmWords
             /\ AfterFirstExtraction(c)
             /\ NullFields(Held(c).extracted_data) = {}) =>
               /\ calls'[c].pc = "finalize"
               /\ Held(c)'.iteration_count = 1
         /\ (/\ FinalizeStepOf(c)
             /\ AfterFirstExtraction(c)
             /\ NullFields(Held(c).extracted_data) = {}) =>
               /\ calls'[c].result = "end"
               /\ Stored(tid[c])'.status = "completed"
               /\ Stored(tid[c])'.iteration_count = 1
               /\ Len(Stored(tid[c])'.messages) = 2
               /\ runs'[tid[c]] = 1]_vars

\* C21 for a record whose four required fields are all filled (no 0, no "")
C21_HappyPathFilled ==
    [][\A c \in DOMAIN tid :
         /\ (/\ ReviewStepOf(c)
             /\ Lower(last'.text) \in AffirmWords
             /\ AfterFirstExtraction(c)
             /\ UnfilledFields(Held(c).extracted_data) = {}) =>
               /\ calls'[c].pc = "finalize"
               /\ Held(c)'.iteration_count = 1
         /\ (/\ FinalizeStepOf(c)
             /\ AfterFirstExtraction(c)
             /\ UnfilledFields(Held(c).extracted_data) = {}) =>
               /\ calls'[c].result = "end"
               /\ Stored(tid[c])'.status = "completed"
               /\ Stored(tid[c])'.iteration_count = 1
               /\ Len(Stored(tid[c])'.messages) = 2
               /\ runs'[tid[c]] = 1]_vars

\* C22: after a failed extraction a review with a free text starts a new
\* extraction; if that one succeeds the state has status extracted and no
\* error marker and goes on to the review; and a session never ends, and no
\* call ever fails, with status error: it is suspended at the review.
C22_FailureIsRecoverable ==
    /\ [](\A t \in Threads :
            (store[t] # None /\ store[t][1].next = END) => Stored(t).status = "completed")
    /\ [](\A c \in DOMAIN tid :
            /\ calls[c].result # "raised"
            /\ (calls[c].pc = "idle" /\ calls[c].values # None /\ Held(c).status = "error") =>
                  /\ calls[c].result = "interrupt"
                  /\ store[tid[c]][1].next = "human_review")
    /\ [][\A c \in DOMAIN tid :
            /\ (/\ ReviewStepOf(c)
                /\ Held(c).status = "error"
                /\ Lower(last'.text) \notin AffirmWords \cup FinishWords) =>
                  /\ calls'[c].pc = "extract_data"
                  /\ store'[tid[c]][1].next = "extract_data"
            /\ (/\ ExtractStepOf(c) /\ last'.kind = "ok"
                /\ Held(c).status = "error") =>
                  /\ calls'[c].pc = "human_review"
                  /\ Held(c)'.status = "extracted"
                  /\ Held(c)'.extracted_data.error = None
                  /\ Held(c)'.extracted_data = ReconcileDates(last'.data)]_vars

\* a session has completed whose first extraction failed and whose second,
\* started by the human's free text, succeeded
C22_Witness ==
    \E t \in Threads :
        /\ store[t] # None
        /\ Stored(t).status = "completed"
        /\ Len(Stored(t).messages) = 4
        /\ Stored(t).messages[1][1] \in {"error", "unavailable"}
        /\ Stored(t).messages[2][1] = "additional"
        /\ Stored(t).messages[3][1] = "extracted"
        /\ Stored(t).messages[4][1] = "final"
        /\ Stored(t).extracted_data.error = None

\* the collaborator's object has a date that names no calendar day
MalformedDate(d) ==
    \/ d.tanggal_checkin # None /\ ~ValidDate(d.tanggal_checkin[1])
    \/ d.tanggal_checkout # None /\ ~ValidDate(d.tanggal_checkout[1])

\* C23: an extraction whose object has a malformed date stores the object
\* as supplied, appends a warning to messages and ends as a normal
\* extraction (status extracted, on to the review), not as a failure.
C23_MalformedDateWarns ==
    [][\A c \in DOMAIN tid :
         (ExtractStepOf(c) /\ last'.kind = "ok" /\ MalformedDate(last'.data)) =>
            /\ calls'[c].pc = "human_review"
            /\ Held(c)'.status = "extracted"
            /\ Held(c)'.extracted_data = last'.data
            /\ \E i \in DOMAIN AddedMessages(c) : AddedMessages(c)[i][1] = "warning"]_vars

\* C23 without the warning: the object is stored as supplied and the step
\* ends as a normal extraction with its one entry in messages
C23_MalformedDateStored ==
    [][\A c \in DOMAIN tid :
         (ExtractStepOf(c) /\ last'.kind = "ok" /\ MalformedDate(last'.data)) =>
            /\ calls'[c].pc = "human_review"
            /\ Held(c)'.status = "extracted"
            /\ Held(c)'.extracted_data = last'.data
            /\ AddedMessages(c) = << <<"extracted", Held(c)'.iteration_count>> >>]_vars

(***************************************************************************)
(* Classification of the human's text.                                      *)
(***************************************************************************)
\* the text in capitals: two texts differ only in letter case when their
\* capitals are the same
Upper(s) ==
    CASE s \in {"setuju", "Setuju", "SETUJU"} -> "SETUJU"
      [] s \in {"ok", "OK", "Ok"} -> "OK"
      [] s \in {"benar", "Benar"} -> "BENAR"
      [] s \in {"selesai", "SELESAI"} -> "SELESAI"
      [] s \in {"lanjut", "Lanjut"} -> "LANJUT"
      [] s \in {"oke", "OKE"} -> "OKE"
      [] s \in {"2 orang", "2 Orang"} -> "2 ORANG"
      [] OTHER -> s

\* the classes a text belongs to, each by its own test
ClassesOf(s) ==
    {k \in {"AFFIRM"} : Upper(s) \in {"SETUJU", "OK", "BENAR"}}
    \cup {k \in {"FINISH"} : Upper(s) \in {"SELESAI", "LANJUT"}}
    \cup {k \in {"OTHERWISE"} : Upper(s) \notin {"SETUJU", "OK", "BENAR", "SELESAI", "LANJUT"}}

\* C24: every text the review receives takes the branch of exactly one
\* class; the two vocabularies share no word; and every spelling of the
\* text in other letter case takes the same branch and is routed to the
\* same node on the same state.
C24_ClassificationCaseInsensitive ==
    /\ [](AffirmWords \cap FinishWords = {})
    /\ [][\A c \in DOMAIN tid :
            ReviewStepOf(c) =>
               /\ ClassesOf(last'.text) = {Decision(last'.text)}
               /\ Decision(last'.text) = "FINISH" => last'.kind = "finalize"
               /\ Decision(last'.text) = "OTHERWISE" =>
                     last'.kind = "extract_data" /\ Held(c)'.user_input[1] = "text"
               /\ Decision(last'.text) = "AFFIRM" =>
                     \/ last'.kind = "finalize"
                     \/ last'.kind = "extract_data" /\ Held(c)'.user_input[1] = "kurang"
               /\ \A b \in CaseTexts :
                     Upper(b) = Upper(last'.text) =>
                        /\ Decision(b) = Decision(last'.text)
                        /\ human_review_node(Held(c), b).goto = last'.kind]_vars

\* a review has routed "OK" to finalize as it would have routed "ok"
C24_Witness ==
    \E c \in DOMAIN tid :
        /\ last.op = "human_review" /\ last.caller = c
        /\ last.text = "OK" /\ last.kind = "finalize"
        /\ Decision("ok") = "AFFIRM" /\ Decision("Ok") = "AFFIRM"
        /\ MissingLabels(Held(c).extracted_data) = <<>>

(***************************************************************************)
(* How a session gets to completed.                                         *)
(***************************************************************************)
StatusOf(snap) == IF snap = None THEN "none" ELSE snap[1].values.status
NextOf(snap) == IF snap = None THEN "none" ELSE snap[1].next

\* C25: a session's status is completed exactly when it has ended; it
\* becomes completed only by the finalize step of a session that is due
\* for finalize; and a session becomes due for finalize only by a review
\* whose decision is FINISH, or AFFIRM on a record whose four required
\* fields are all non-null, with nothing in between.
C25_CompletedOnlyByDecision ==
    /\ [](\A t \in Threads : StatusOf(store[t]) = "completed" <=> NextOf(store[t]) = END)
    /\ [](\A c \in DOMAIN tid :
            calls[c].pc = "finalize" <=>
               (NextOf(store[tid[c]]) = "finalize" /\ calls[c].pc # "idle"))
    /\ [][\A t \in Threads :
            /\ (StatusOf(store'[t]) = "completed" /\ StatusOf(store[t]) # "completed") =>
                  /\ last'.op = "finalize" /\ tid[last'.caller] = t
                  /\ NextOf(store[t]) = "finalize"
            /\ (NextOf(store'[t]) = "finalize" /\ NextOf(store[t]) # "finalize") =>
                  /\ last'.op = "human_review" /\ tid[last'.caller] = t
                  /\ NextOf(store[t]) = "human_review"
                  /\ \/ Upper(last'.text) \in {"SELESAI", "LANJUT"}
                     \/ /\ Upper(last'.text) \in {"SETUJU", "OK", "BENAR"}
                        /\ NullFields(Stored(t).extracted_data) = {}]_vars

\* a session has completed after an AFFIRM on a record with all four
\* required fields
C25_Witness ==
    \E c \in DOMAIN tid :
        /\ last.op = "finalize" /\ last.caller = c
        /\ Stored(tid[c]).status = "completed"
        /\ NullFields(Stored(tid[c]).extracted_data) = {}
        /\ Len(Stored(tid[c]).messages) = 2

\* C26: whatever the decision, the review step leaves extracted_data,
\* iteration_count and status as they were, appends at most one entry to
\* messages and changes nothing else but user_input, in the call's state
\* and in the checkpoint it writes.
C26_ReviewKeepsData ==
    [][\A c \in DOMAIN tid :
         ReviewStepOf(c) =>
            /\ Held(c)'.extracted_data = Held(c).extracted_data
            /\ Held(c)'.iteration_count = Held(c).iteration_count
            /\ Held(c)'.status = Held(c).status
            /\ IsPrefix(Held(c).messages, Held(c)'.messages)
            /\ Len(AddedMessages(c)) <= 1
            /\ DOMAIN Held(c)' = DOMAIN Held(c)
            /\ Stored(tid[c])' = Held(c)'
            /\ runs' = runs]_vars

\* an AFFIRM on an incomplete record has been sent back for more data: the
\* review wrote a prompt and one entry, and the record is as extracted
C26_Witness ==
    \E c \in DOMAIN tid :
        /\ last.op = "human_review" /\ last.caller = c
        /\ last.kind = "extract_data"
        /\ Held(c).user_input[1] = "kurang"
        /\ Held(c).status = "extracted"
        /\ Held(c).iteration_count = 1
        /\ Held(c).extracted_data.lokasi = Some("Ubud")
        /\ Len(Held(c).messages) = 2

(***************************************************************************)
(* Termination.                                                             *)
(***************************************************************************)
\* thread t has ended with status completed
Completed(t) ==
    store[t] # None /\ store[t][1].next = END /\ Stored(t).status = "completed"

\* C27: a resume that carries a FINISH word ends, as that same call, with
\* status completed; and every session that was started is completed at
\* some time, whatever its extractions gave.
C27_FinishTerminates ==
    /\ \A c \in {"A"} :
          (/\ calls[c].pc = "human_review"
           /\ calls[c].resume # None
           /\ Upper(Head(calls[c].resume \o <<"">>)) \in {"SELESAI", "LANJUT"})
             ~> (calls[c].pc = "idle" /\ calls[c].result = "end" /\ Completed(tid[c]))
    /\ \A t \in Threads : (store[t] # None) ~> Completed(t)

\* a session whose only extraction failed has completed on the human's
\* FINISH
C27_Witness ==
    \E c \in DOMAIN tid :
        /\ last.op = "finalize" /\ last.caller = c
        /\ Completed(tid[c])
        /\ runs[tid[c]] = 1
        /\ Len(Stored(tid[c]).messages) = 2
        /\ Stored(tid[c]).messages[1][1] \in {"error", "unavailable"}
        /\ Stored(tid[c]).extracted_data.error # None
====
